---- MODULE Spec2Model ----
(***************************************************************************)
(* The per-session interactive terminal engine of sshchat (package utils,  *)
(* type Client): the input watcher, the window-size watcher, the           *)
(* session-done watcher, the close coordinator (emitClose / Close), the    *)
(* render debounce timer (TrySendRender), the event loop, and the          *)
(* line-wrap function calculateMessageLines.                               *)
(*                                                                         *)
(* Every section of code that runs between c.mu.Lock() and c.mu.Unlock()   *)
(* is one action; every trySend, and every call of TrySendRender, is an    *)
(* action of its own, so that the other goroutines interleave between      *)
(* them exactly where the code has released the mutex.                     *)
(***************************************************************************)
EXTENDS Integers, Sequences, FiniteSets, TLC

(***************************************************************************)
(* Bounds of the model.                                                    *)
(***************************************************************************)
\* Input.MaxLen: 128 in NewClient; the model keeps the comparison of the
\* code and scales the capacity down.
MaxLen == 2
\* The message log is unbounded in the code; commits stop at MaxMsgs.
MaxMsgs == 1
\* renderDebounceDur in clock ticks (50 ms in NewClient).
DebounceDur == 2
\* Callback goroutines of the debounce timer that have been started by the
\* runtime and have not run yet.
MaxCb == 2
\* Calls of Client.Close made by the owner of the client.
MaxCloseCalls == 2
\* calculateMessageLines: the longest header and content, the widest line.
MaxHeader == 2
MaxContent == 3
MaxWidth == 3
\* calculateMessageLines: its loop is followed until lines holds MaxLines.
MaxLines == 5
\* handleRender: the messages of a log, the rows and the columns of a
\* terminal.
MaxLog == 3
MaxRows == 5
MaxCols == 13

(***************************************************************************)
(* Values.                                                                 *)
(***************************************************************************)
\* The four event channels of Client.
ChanNames == {"RenderCh", "EnterCh", "WinSizeChangedCh", "CloseCh"}

\* make(chan struct{}, 1)
ChanCap == 1

\* s.User(), immutable for the lifetime of the client.
Username == <<98>>

\* Window sizes the pty reports.
Windows == {[Width |-> 2, Height |-> 1], [Width |-> 1, Height |-> 2]}

\* unicode.ReplacementChar, what bufio.Reader.ReadRune returns for bytes
\* that are not valid UTF-8.
RuneError == 65533

\* What the client's byte stream can deliver next: a well-formed rune, bytes
\* that do not decode, the end of the stream, or a read error of the
\* transport.  The runes are one of each class the switch distinguishes.
Runes == {97, 9, 13, 10, 3, 4, 8, 127, 1}

Stream ==
    [kind : {"rune"}, rune : Runes]
        \cup {[kind |-> "malformed", rune |-> 0],
              [kind |-> "eof", rune |-> 0],
              [kind |-> "error", rune |-> 0]}

VARIABLES
    \* struct Client
    width, height,          \* c.width, c.height
    buffer,                 \* c.input.Buffer
    messages,               \* c.messages
    ch,                     \* number of signals buffered in each channel
    chClosed,               \* number of close(ch) executed on each channel
    timer,                  \* c.renderDebounceTimer: "nil" or "set"
    timerArmed,             \* the runtime timer is pending
    timerLeft,              \* ticks until the pending timer is due
    cbPending,              \* started callbacks of the timer not yet run
    onceDone,               \* c.once has run its function
    cancelPc,               \* the goroutine of emitClose that cancels ctx
    transportCloses,        \* calls of c.session.Close()
    sessDone,               \* s.Context().Done() is closed
    \* goroutines
    inputPc,                \* input watcher
    resizePc,               \* window size watcher
    donePc,                 \* session close watcher
    mainPc, closeCalls,     \* sessionHandler: EventLoop, then Close
    fault,                  \* the panic that ended the process, if any
    \* one call of calculateMessageLines
    header, content, w,     \* its arguments
    lines, currentLine, lineWidth, contentIdx,
    wrapPc,
    \* one call of handleRender
    renderPc,
    h,                      \* the height c.Size() returned (the width is w)
    renderMessages,         \* messages := c.messages
    msgIdx,                 \* index i of the loop, counted from 1
    currentY,
    screen,                 \* the lines written to the session, with their rows
    \* history, written by the observers below and read by no action
    lastItem,               \* what the last ReadRune of the watcher was given
    prevBuffer,             \* c.input.Buffer when it was given
    prevMessages,           \* c.messages when it was given
    closeSends,             \* signals put on c.CloseCh
    triggers,               \* calls of emitClose
    lastSend,               \* the last trySend: its channel, what the channel
                            \* held, and the outcome
    burstsOpen,             \* bursts of render requests begun, less render signals emitted
    burstEarly,             \* a render signal came less than DebounceDur after a request
    lastWin,                \* the window the pty reported last: ptyReq.Window,
                            \* then the last win received from winCh
    frame,                  \* the call of handleRender in progress: the pairs
                            \* <<c.messages, c.input.Buffer>> c.mu has guarded
                            \* since it began, and the buffer it drew
    owed                    \* the last call of TrySendRender ("a" and "b" in
                            \* turn) if EventLoop has taken no render signal
                            \* since, "no" otherwise

clientVars == <<width, height, buffer, messages>>
chanVars == <<ch, chClosed>>
timerVars == <<timer, timerArmed, timerLeft, cbPending>>
closeVars == <<onceDone, cancelPc, transportCloses>>
mainVars == <<mainPc, closeCalls>>
wrapVars ==
    <<header, content, w, lines, currentLine, lineWidth, contentIdx, wrapPc>>
renderVars == <<renderPc, h, renderMessages, msgIdx, currentY, screen>>

inputHist == <<lastItem, prevBuffer, prevMessages>>
closeHist == <<closeSends, triggers>>
debHist == <<burstsOpen, burstEarly>>

engineVars ==
    <<clientVars, chanVars, timerVars, closeVars, sessDone, inputPc, resizePc,
      donePc, mainVars, fault>>

vars ==
    <<engineVars, wrapVars, renderVars, inputHist, closeHist, lastSend,
      debHist, lastWin, frame, owed>>

\* ctx.Done() is closed once cancel() has been called.
ctxDone == cancelPc = "done"

\* c.wg: the watchers that have not returned.
wg ==
    (IF inputPc = "done" THEN 0 ELSE 1)
        + (IF resizePc = "done" THEN 0 ELSE 1)
        + (IF donePc = "done" THEN 0 ELSE 1)

\* NewClient as sessionHandler calls it:
\* utils.NewClient(s, ptyReq.Window.Height, ptyReq.Window.Width, ...).
InitClient ==
    /\ \E win \in Windows :
         /\ lastWin = win
         /\ width = win.Height
         /\ height = win.Width
    /\ buffer = <<>>
    /\ messages = <<>>

\* The channels, the timer, the context and the goroutines NewClient starts.
InitControl ==
    /\ ch = [c \in ChanNames |-> 0]
    /\ chClosed = [c \in ChanNames |-> 0]
    /\ timer = "nil"
    /\ timerArmed = FALSE
    /\ timerLeft = 0
    /\ cbPending = 0
    /\ onceDone = FALSE
    /\ cancelPc = "idle"
    /\ transportCloses = 0
    /\ sessDone = FALSE
    /\ inputPc = "select"
    /\ resizePc = "select"
    /\ donePc = "wait"
    /\ mainPc = "loop"
    /\ closeCalls = 0
    /\ fault = "none"

InitEngine == InitClient /\ InitControl

InitHist ==
    /\ lastItem = [kind |-> "none", rune |-> 0]
    /\ prevBuffer = <<>>
    /\ prevMessages = <<>>
    /\ closeSends = 0
    /\ triggers = 0
    /\ lastSend = [chan |-> "none", pending |-> 0, outcome |-> "none",
                   mu |-> FALSE, closeReturned |-> FALSE]
    /\ burstsOpen = 0
    /\ burstEarly = FALSE
    /\ frame = [states |-> {}, buffer |-> <<>>]
    /\ owed = "no"

\* No call of calculateMessageLines is in progress.
InitNoWrap ==
    /\ header = <<>>
    /\ content = <<>>
    /\ w = 0
    /\ lines = <<>>
    /\ currentLine = <<>>
    /\ lineWidth = 0
    /\ contentIdx = 0
    /\ wrapPc = "idle"

\* No call of handleRender is in progress.
InitNoRender ==
    /\ renderPc = "idle"
    /\ h = 0
    /\ renderMessages = <<>>
    /\ msgIdx = 0
    /\ currentY = 0
    /\ screen = <<>>

Init == InitEngine /\ InitHist /\ InitNoWrap /\ InitNoRender

(***************************************************************************)
(* Channels.                                                               *)
(***************************************************************************)
\* A send on a channel that queues every signal.
SentQueued(c, chn) == [c EXCEPT ![chn] = @ + 1]

\* The buffer of a channel after select { case ch <- struct{}{}: default: }.
Sent(c, chn) == IF c[chn] < ChanCap THEN [c EXCEPT ![chn] = @ + 1] ELSE c

\* Client.trySend: a send on a closed channel panics, a send on a full one
\* takes the default branch.
TrySend(chn) ==
    IF chClosed[chn] > 0
    THEN /\ fault' = "send on closed channel"
         /\ UNCHANGED ch
    ELSE /\ ch' = Sent(ch, chn)
         /\ UNCHANGED fault

(***************************************************************************)
(* Close coordinator.                                                      *)
(***************************************************************************)
\* An emitClose without the sync.Once: every call does the work.
EmitCloseEveryTime ==
    /\ onceDone' = TRUE
    /\ transportCloses' = transportCloses + 1
    /\ cancelPc' = "sleeping"
    /\ TrySend("CloseCh")
    /\ UNCHANGED chClosed

\* Client.emitClose.  sync.Once.Do serialises its callers, and the function
\* it runs does not block, so a call is one step.
EmitClose ==
    /\ IF onceDone
       THEN UNCHANGED <<onceDone, cancelPc, transportCloses, ch, fault>>
       ELSE /\ onceDone' = TRUE
            /\ transportCloses' = transportCloses + 1
            /\ cancelPc' = "sleeping"
            /\ TrySend("CloseCh")
    /\ UNCHANGED chClosed

\* The goroutine started by emitClose: time.Sleep(10ms); c.cancel().
CancelAfterGrace ==
    /\ cancelPc = "sleeping"
    /\ cancelPc' = "done"
    /\ UNCHANGED <<clientVars, chanVars, timerVars, onceDone, transportCloses,
                   sessDone, inputPc, resizePc, donePc, mainVars, fault>>

(***************************************************************************)
(* Render scheduler.                                                       *)
(***************************************************************************)
\* Client.TrySendRender, the body under c.mu.  Timer.Reset on a timer made
\* by AfterFunc schedules the function again even when the timer has fired.
TrySendRender ==
    /\ timer' = "set"
    /\ timerArmed' = TRUE
    /\ timerLeft' = DebounceDur
    /\ UNCHANGED cbPending

\* One tick of the clock while the timer is pending.
Tick ==
    /\ timerArmed
    /\ timerLeft > 0
    /\ timerLeft' = timerLeft - 1
    /\ UNCHANGED <<clientVars, chanVars, timer, timerArmed, cbPending,
                   closeVars, sessDone, inputPc, resizePc, donePc, mainVars,
                   fault>>

\* The runtime starts the function of a timer that is due in a goroutine of
\* its own; the function then waits for c.mu.
TimerFire ==
    /\ timerArmed
    /\ timerLeft = 0
    /\ cbPending < MaxCb
    /\ timerArmed' = FALSE
    /\ cbPending' = cbPending + 1
    /\ UNCHANGED <<clientVars, chanVars, timer, timerLeft, closeVars,
                   sessDone, inputPc, resizePc, donePc, mainVars, fault>>

\* The function given to time.AfterFunc, under c.mu: trySend(c.RenderCh),
\* then c.renderDebounceTimer.Stop() and c.renderDebounceTimer = nil.
TimerCallback ==
    /\ cbPending > 0
    /\ cbPending' = cbPending - 1
    /\ IF chClosed["RenderCh"] > 0
       THEN /\ fault' = "send on closed channel"
            /\ UNCHANGED <<ch, timer, timerArmed, timerLeft>>
       ELSE /\ ch' = Sent(ch, "RenderCh")
            /\ IF timer = "nil"
               THEN /\ fault' = "nil timer"
                    /\ UNCHANGED <<timer, timerArmed, timerLeft>>
               ELSE /\ timer' = "nil"
                    /\ timerArmed' = FALSE
                    /\ timerLeft' = 0
                    /\ UNCHANGED fault
    /\ UNCHANGED <<clientVars, chClosed, closeVars, sessDone, inputPc,
                   resizePc, donePc, mainVars>>

(***************************************************************************)
(* Input watcher.                                                          *)
(***************************************************************************)
\* Bytes a rune takes in UTF-8.
Utf8Len(x) == IF x < 128 THEN 1 ELSE IF x < 2048 THEN 2 ELSE IF x < 65536 THEN 3 ELSE 4

\* bufio.Reader.ReadRune on what the stream delivers: bytes that do not
\* decode are consumed one at a time and returned as RuneError, size 1, with
\* no error.
ReadRune(item) ==
    CASE item.kind = "rune" ->
           [r |-> item.rune, size |-> Utf8Len(item.rune), err |-> "nil"]
      [] item.kind = "malformed" ->
           [r |-> RuneError, size |-> 1, err |-> "nil"]
      [] item.kind = "eof" ->
           [r |-> 0, size |-> 0, err |-> "EOF"]
      [] item.kind = "error" ->
           [r |-> 0, size |-> 0, err |-> "error"]

isSessionClosedErr(err) == err = "EOF"

\* string([]rune): a rune that is no Unicode scalar value is encoded as
\* RuneError.  A string is kept as the sequence of its code points.
ValidRune(x) == (0 <= x /\ x < 55296) \/ (57343 < x /\ x <= 1114111)
RunesToString(rs) ==
    [i \in 1..Len(rs) |-> IF ValidRune(rs[i]) THEN rs[i] ELSE RuneError]

\* Message{Timestamp, Username, Content}; the timestamp is left out.
NewMessage(buf) == [Username |-> Username, Content |-> RunesToString(buf)]

\* The select on ctx.Done() at the top of the loop.
InputSelect ==
    /\ inputPc = "select"
    /\ inputPc' = IF ctxDone THEN "done" ELSE "read"
    /\ UNCHANGED <<clientVars, chanVars, timerVars, closeVars, sessDone,
                   resizePc, donePc, mainVars, fault>>

\* reader.ReadRune() returned an error for which the watcher calls
\* emitClose before it returns.
InputReadClosed(item) ==
    /\ inputPc = "read"
    /\ ReadRune(item).err # "nil"
    /\ ReadRune(item).err = "EOF" \/ isSessionClosedErr(ReadRune(item).err)
    /\ EmitClose
    /\ inputPc' = "done"
    /\ UNCHANGED <<clientVars, timerVars, sessDone, resizePc, donePc, mainVars>>

\* reader.ReadRune() returned any other error: the watcher returns.
InputReadFailed(item) ==
    /\ inputPc = "read"
    /\ ReadRune(item).err # "nil"
    /\ ~(ReadRune(item).err = "EOF" \/ isSessionClosedErr(ReadRune(item).err))
    /\ inputPc' = "done"
    /\ UNCHANGED <<clientVars, chanVars, timerVars, closeVars, sessDone,
                   resizePc, donePc, mainVars, fault>>

\* The rune the switch is entered with.
Decoded(item, rs) ==
    /\ ReadRune(item).err = "nil"
    /\ ReadRune(item).size # 0
    /\ ReadRune(item).r \in rs

\* InputEnter with the clearing of the buffer forgotten.
InputEnterKeepsBuffer(item) ==
    /\ inputPc = "read"
    /\ Decoded(item, {13, 10})
    /\ buffer = <<>> \/ Len(messages) < MaxMsgs
    /\ IF Len(buffer) > 0
       THEN /\ messages' = Append(messages, NewMessage(buffer))
            /\ UNCHANGED buffer
       ELSE UNCHANGED <<messages, buffer>>
    /\ inputPc' = "enter"
    /\ UNCHANGED <<width, height, chanVars, timerVars, closeVars, sessDone,
                   resizePc, donePc, mainVars, fault>>

\* case '\r', '\n'
InputEnter(item) ==
    /\ inputPc = "read"
    /\ Decoded(item, {13, 10})
    /\ buffer = <<>> \/ Len(messages) < MaxMsgs
    /\ IF Len(buffer) > 0
       THEN /\ messages' = Append(messages, NewMessage(buffer))
            /\ buffer' = <<>>
       ELSE UNCHANGED <<messages, buffer>>
    /\ inputPc' = "enter"
    /\ UNCHANGED <<width, height, chanVars, timerVars, closeVars, sessDone,
                   resizePc, donePc, mainVars, fault>>

\* c.trySend(c.EnterCh) after the unlock.
InputSendEnter ==
    /\ inputPc = "enter"
    /\ TrySend("EnterCh")
    /\ inputPc' = "render"
    /\ UNCHANGED <<clientVars, chClosed, timerVars, closeVars, sessDone,
                   resizePc, donePc, mainVars>>

\* c.TrySendRender() of the input watcher.
InputRender ==
    /\ inputPc = "render"
    /\ TrySendRender
    /\ inputPc' = "select"
    /\ UNCHANGED <<clientVars, chanVars, closeVars, sessDone, resizePc,
                   donePc, mainVars, fault>>

\* InputCtrlClose without the return: the watcher goes on to the next read.
InputCtrlCloseReadsOn(item) ==
    /\ inputPc = "read"
    /\ Decoded(item, {3, 4})
    /\ EmitClose
    /\ inputPc' = "select"
    /\ UNCHANGED <<clientVars, timerVars, sessDone, resizePc, donePc, mainVars>>

\* case 0x03, case 0x04
InputCtrlClose(item) ==
    /\ inputPc = "read"
    /\ Decoded(item, {3, 4})
    /\ EmitClose
    /\ inputPc' = "done"
    /\ UNCHANGED <<clientVars, timerVars, sessDone, resizePc, donePc, mainVars>>

\* InputBackspace with the render requested whether or not a rune was removed.
InputBackspaceAlwaysRenders(item) ==
    /\ inputPc = "read"
    /\ Decoded(item, {8, 127})
    /\ IF Len(buffer) > 0
       THEN buffer' = SubSeq(buffer, 1, Len(buffer) - 1)
       ELSE UNCHANGED buffer
    /\ inputPc' = "render"
    /\ UNCHANGED <<width, height, messages, chanVars, timerVars, closeVars,
                   sessDone, resizePc, donePc, mainVars, fault>>

\* case '\b', 0x7f
InputBackspace(item) ==
    /\ inputPc = "read"
    /\ Decoded(item, {8, 127})
    /\ IF Len(buffer) > 0
       THEN /\ buffer' = SubSeq(buffer, 1, Len(buffer) - 1)
            /\ inputPc' = "render"
       ELSE /\ UNCHANGED buffer
            /\ inputPc' = "select"
    /\ UNCHANGED <<width, height, messages, chanVars, timerVars, closeVars,
                   sessDone, resizePc, donePc, mainVars, fault>>

\* The runes that reach the default branch of the switch.
DefaultRunes == (Runes \cup {RuneError}) \ {13, 10, 3, 4, 8, 127}

\* default: a control character other than tab is ignored.
InputControl(item) ==
    /\ inputPc = "read"
    /\ Decoded(item, DefaultRunes)
    /\ ReadRune(item).r < 32 /\ ReadRune(item).r # 9
    /\ inputPc' = "select"
    /\ UNCHANGED <<clientVars, chanVars, timerVars, closeVars, sessDone,
                   resizePc, donePc, mainVars, fault>>

\* InputPrintable with the capacity test off by one.
InputPrintableOffByOne(item) ==
    /\ inputPc = "read"
    /\ Decoded(item, DefaultRunes)
    /\ ~(ReadRune(item).r < 32 /\ ReadRune(item).r # 9)
    /\ IF Len(buffer) <= MaxLen
       THEN /\ buffer' = Append(buffer, ReadRune(item).r)
            /\ inputPc' = "render"
       ELSE /\ UNCHANGED buffer
            /\ inputPc' = "select"
    /\ UNCHANGED <<width, height, messages, chanVars, timerVars, closeVars,
                   sessDone, resizePc, donePc, mainVars, fault>>

\* default: any other rune is appended while there is room.
InputPrintable(item) ==
    /\ inputPc = "read"
    /\ Decoded(item, DefaultRunes)
    /\ ~(ReadRune(item).r < 32 /\ ReadRune(item).r # 9)
    /\ IF Len(buffer) < MaxLen
       THEN /\ buffer' = Append(buffer, ReadRune(item).r)
            /\ inputPc' = "render"
       ELSE /\ UNCHANGED buffer
            /\ inputPc' = "select"
    /\ UNCHANGED <<width, height, messages, chanVars, timerVars, closeVars,
                   sessDone, resizePc, donePc, mainVars, fault>>

(***************************************************************************)
(* Window size watcher.                                                    *)
(***************************************************************************)
\* case <-ctx.Done()
ResizeCancelled ==
    /\ resizePc = "select"
    /\ ctxDone
    /\ resizePc' = "done"
    /\ UNCHANGED <<clientVars, chanVars, timerVars, closeVars, sessDone,
                   inputPc, donePc, mainVars, fault>>

\* case win, ok := <-winCh with ok false: the session has closed the channel
\* of window changes, which it does when the requests of the session end.
ResizeChanClosed ==
    /\ resizePc = "select"
    /\ transportCloses > 0 \/ sessDone
    /\ resizePc' = "done"
    /\ UNCHANGED <<clientVars, chanVars, timerVars, closeVars, sessDone,
                   inputPc, donePc, mainVars, fault>>

\* case win, ok := <-winCh with ok true, for the window win received
ResizeEventOf(win) ==
    /\ resizePc = "select"
    /\ width' = win.Width
    /\ height' = win.Height
    /\ resizePc' = "signal"
    /\ UNCHANGED <<buffer, messages, chanVars, timerVars, closeVars, sessDone,
                   inputPc, donePc, mainVars, fault>>

ResizeEvent == \E win \in Windows : ResizeEventOf(win)

\* c.trySend(c.WinSizeChangedCh)
ResizeSignal ==
    /\ resizePc = "signal"
    /\ TrySend("WinSizeChangedCh")
    /\ resizePc' = "render"
    /\ UNCHANGED <<clientVars, chClosed, timerVars, closeVars, sessDone,
                   inputPc, donePc, mainVars>>

\* c.TrySendRender() of the window size watcher.
ResizeRender ==
    /\ resizePc = "render"
    /\ TrySendRender
    /\ resizePc' = "select"
    /\ UNCHANGED <<clientVars, chanVars, closeVars, sessDone, inputPc, donePc,
                   mainVars, fault>>

(***************************************************************************)
(* Session close watcher.                                                  *)
(***************************************************************************)
\* The context of the session ends (the connection is gone).
SessionEnds ==
    /\ ~sessDone
    /\ sessDone' = TRUE
    /\ UNCHANGED <<clientVars, chanVars, timerVars, closeVars, inputPc,
                   resizePc, donePc, mainVars, fault>>

\* <-s.Context().Done(); c.emitClose()
DoneWatcher ==
    /\ donePc = "wait"
    /\ sessDone
    /\ EmitClose
    /\ donePc' = "done"
    /\ UNCHANGED <<clientVars, timerVars, sessDone, inputPc, resizePc, mainVars>>

(***************************************************************************)
(* sessionHandler: client.EventLoop(), then the deferred client.Close().   *)
(***************************************************************************)
\* A receive in the select of EventLoop: a buffered signal is taken; a
\* closed channel is always ready.
Received(c, chn) == IF c[chn] > 0 THEN [c EXCEPT ![chn] = @ - 1] ELSE c

\* An event loop that returns when it has taken a render, enter or resize
\* signal.
LoopSignalReturns ==
    /\ mainPc = "loop"
    /\ \E chn \in {"RenderCh", "EnterCh", "WinSizeChangedCh"} :
         /\ ch[chn] > 0 \/ chClosed[chn] > 0
         /\ ch' = Received(ch, chn)
    /\ mainPc' = "Close"
    /\ UNCHANGED <<clientVars, chClosed, timerVars, closeVars, sessDone,
                   inputPc, resizePc, donePc, closeCalls, fault>>

\* case <-c.RenderCh, case <-c.EnterCh, case <-c.WinSizeChangedCh
LoopSignal ==
    /\ mainPc = "loop"
    /\ \E chn \in {"RenderCh", "EnterCh", "WinSizeChangedCh"} :
         /\ ch[chn] > 0 \/ chClosed[chn] > 0
         /\ ch' = Received(ch, chn)
    /\ mainPc' = "render"
    /\ UNCHANGED <<clientVars, chClosed, timerVars, closeVars, sessDone,
                   inputPc, resizePc, donePc, closeCalls, fault>>

\* c.HandleRender() returns to the select.
LoopRender ==
    /\ mainPc = "render"
    /\ mainPc' = "loop"
    /\ UNCHANGED <<clientVars, chanVars, timerVars, closeVars, sessDone,
                   inputPc, resizePc, donePc, closeCalls, fault>>

\* case <-c.CloseCh
LoopClose ==
    /\ mainPc = "loop"
    /\ ch["CloseCh"] > 0 \/ chClosed["CloseCh"] > 0
    /\ ch' = Received(ch, "CloseCh")
    /\ mainPc' = "handleClose"
    /\ UNCHANGED <<clientVars, chClosed, timerVars, closeVars, sessDone,
                   inputPc, resizePc, donePc, closeCalls, fault>>

\* c.handleClose(); return
LoopHandleClose ==
    /\ mainPc = "handleClose"
    /\ EmitClose
    /\ mainPc' = "Close"
    /\ UNCHANGED <<clientVars, timerVars, sessDone, inputPc, resizePc, donePc,
                   closeCalls>>

\* Client.Close: c.emitClose()
CloseEmit ==
    /\ mainPc = "Close"
    /\ EmitClose
    /\ closeCalls' = closeCalls + 1
    /\ mainPc' = "wait"
    /\ UNCHANGED <<clientVars, timerVars, sessDone, inputPc, resizePc, donePc>>

\* Client.Close: c.wg.Wait()
CloseWait ==
    /\ mainPc = "wait"
    /\ wg = 0
    /\ mainPc' = "once"
    /\ UNCHANGED <<clientVars, chanVars, timerVars, closeVars, sessDone,
                   inputPc, resizePc, donePc, closeCalls, fault>>

\* A Close that closes the channels whatever c.once has done.
CloseChannelsAnyway ==
    /\ mainPc = "once"
    /\ chClosed' = [c \in ChanNames |-> chClosed[c] + 1]
    /\ mainPc' = "returned"
    /\ UNCHANGED <<clientVars, ch, timerVars, closeVars, sessDone, inputPc,
                   resizePc, donePc, closeCalls, fault>>

\* Client.Close: c.once.Do(func() { close(c.RenderCh); ... }), on the same
\* sync.Once that emitClose uses.
CloseChannels ==
    /\ mainPc = "once"
    /\ IF onceDone
       THEN UNCHANGED <<onceDone, chClosed>>
       ELSE /\ onceDone' = TRUE
            /\ chClosed' = [c \in ChanNames |-> chClosed[c] + 1]
    /\ mainPc' = "returned"
    /\ UNCHANGED <<clientVars, ch, timerVars, cancelPc, transportCloses,
                   sessDone, inputPc, resizePc, donePc, closeCalls, fault>>

\* Close is called once more.
CloseAgain ==
    /\ mainPc = "returned"
    /\ closeCalls < MaxCloseCalls
    /\ mainPc' = "Close"
    /\ UNCHANGED <<clientVars, chanVars, timerVars, closeVars, sessDone,
                   inputPc, resizePc, donePc, closeCalls, fault>>

(***************************************************************************)
(* calculateMessageLines(header, content, w), one step for the prologue,   *)
(* one for each iteration of the loop and one for the epilogue.  Strings   *)
(* are the sequences of their runes.                                       *)
(***************************************************************************)
\* Runes of the headers and contents tried: a letter and a Hangul syllable.
WrapRunes == {97, 54620}

SeqsUpTo(S, n) == UNION {[1..k -> S] : k \in 0..n}

\* content[contentIdx:]
remainingContent == SubSeq(content, contentIdx + 1, Len(content))

\* lineWidth - utf8.RuneCountInString(currentLine)
spaceLeft == lineWidth - Len(currentLine)

\* append(lines, l).  Lines past MaxLines are not kept: the model no longer
\* tells such results apart, and a loop that appends for ever has finitely
\* many states.
AppendLine(ls, l) == IF Len(ls) < MaxLines THEN Append(ls, l) ELSE ls

\* lines, currentLine and lineWidth are initialised, the header is taken.
WrapStart ==
    /\ wrapPc = "start"
    /\ lines' = <<>>
    /\ IF Len(header) > 0
       THEN /\ currentLine' = header
            /\ lineWidth' = w - Len(header)
       ELSE /\ currentLine' = <<>>
            /\ lineWidth' = w
    /\ contentIdx' = 0
    /\ wrapPc' = "loop"
    /\ UNCHANGED <<header, content, w>>

\* len(remainingContent) <= spaceLeft
WrapFits ==
    /\ wrapPc = "loop"
    /\ contentIdx < Len(content)
    /\ Len(remainingContent) <= spaceLeft
    /\ currentLine' = currentLine \o RunesToString(remainingContent)
    /\ contentIdx' = Len(content)
    /\ UNCHANGED <<header, content, w, lines, lineWidth, wrapPc>>

\* A split that steps over the rune after the ones it took.
WrapSplitSkipsRune ==
    /\ wrapPc = "loop"
    /\ contentIdx < Len(content)
    /\ Len(remainingContent) > spaceLeft
    /\ spaceLeft > 0
    /\ LET toAdd == SubSeq(remainingContent, 1, spaceLeft)
       IN /\ lines' = AppendLine(lines, currentLine \o RunesToString(toAdd))
          /\ contentIdx' = contentIdx + Len(toAdd) + 1
    /\ currentLine' = <<>>
    /\ lineWidth' = w
    /\ UNCHANGED <<header, content, w, wrapPc>>

\* else if spaceLeft > 0
WrapSplit ==
    /\ wrapPc = "loop"
    /\ contentIdx < Len(content)
    /\ Len(remainingContent) > spaceLeft
    /\ spaceLeft > 0
    /\ LET toAdd == SubSeq(remainingContent, 1, spaceLeft)
       IN /\ lines' = AppendLine(lines, currentLine \o RunesToString(toAdd))
          /\ contentIdx' = contentIdx + Len(toAdd)
    /\ currentLine' = <<>>
    /\ lineWidth' = w
    /\ UNCHANGED <<header, content, w, wrapPc>>

\* else
WrapFlush ==
    /\ wrapPc = "loop"
    /\ contentIdx < Len(content)
    /\ Len(remainingContent) > spaceLeft
    /\ spaceLeft <= 0
    /\ lines' = AppendLine(lines, currentLine)
    /\ currentLine' = <<>>
    /\ lineWidth' = w
    /\ UNCHANGED <<header, content, w, contentIdx, wrapPc>>

\* The loop has ended: if currentLine != "" it is appended; return lines.
WrapReturn ==
    /\ wrapPc = "loop"
    /\ contentIdx >= Len(content)
    /\ lines' = IF currentLine # <<>> THEN AppendLine(lines, currentLine)
                ELSE lines
    /\ wrapPc' = "done"
    /\ UNCHANGED <<header, content, w, currentLine, lineWidth, contentIdx>>

(***************************************************************************)
(* handleRender: one step for the prologue, one for each call of           *)
(* calculateMessageLines (whose steps are the ones above), one for what    *)
(* the loop does with the lines returned, and one for the prompt.  screen  *)
(* holds what has been written since the screen was cleared: each line     *)
(* with the row the cursor was in, and the message it belongs to (0 for    *)
(* the prompt).                                                            *)
(***************************************************************************)
\* msg.Timestamp.Format("2006-01-02 15:04:05"), scaled down to one rune.
TimestampText == <<84>>

\* fmt.Sprintf("[%s %s] ", timestamp, msg.Username)
HeaderOf(msg) == <<91>> \o TimestampText \o <<32>> \o msg.Username \o <<93, 32>>

\* []rune(str) of a string kept as its code points.
StringToRunes(str) ==
    [k \in 1..Len(str) |-> IF ValidRune(str[k]) THEN str[k] ELSE RuneError]

\* w, h := c.Size(); the screen is cleared; messages := c.messages;
\* currentY := maxMessageHeight; i := len(messages) - 1
RenderStart ==
    /\ renderPc = "start"
    /\ w' = width
    /\ h' = height
    /\ screen' = <<>>
    /\ renderMessages' = messages
    /\ currentY' = height - 1
    /\ msgIdx' = Len(messages)
    /\ renderPc' = "loop"
    /\ UNCHANGED <<header, content, lines, currentLine, lineWidth, contentIdx,
                   wrapPc>>

\* i >= 0: lines := calculateMessageLines(header, content, w)
RenderMessage ==
    /\ renderPc = "loop"
    /\ msgIdx >= 1
    /\ header' = HeaderOf(renderMessages[msgIdx])
    /\ content' = StringToRunes(renderMessages[msgIdx].Content)
    /\ wrapPc' = "start"
    /\ renderPc' = "wrap"
    /\ UNCHANGED <<w, lines, currentLine, lineWidth, contentIdx, h,
                   renderMessages, msgIdx, currentY, screen>>

\* The loop has gone through every message.
RenderLoopEnd ==
    /\ renderPc = "loop"
    /\ msgIdx < 1
    /\ renderPc' = "prompt"
    /\ UNCHANGED <<wrapVars, h, renderMessages, msgIdx, currentY, screen>>

\* A loop that goes on to the older messages when a block does not fit.
RenderSkip ==
    /\ renderPc = "wrap"
    /\ wrapPc = "done"
    /\ currentY - Len(lines) < 0
    /\ msgIdx' = msgIdx - 1
    /\ renderPc' = "loop"
    /\ wrapPc' = "idle"
    /\ UNCHANGED <<header, content, w, lines, currentLine, lineWidth,
                   contentIdx, h, renderMessages, currentY, screen>>

\* if currentY-numLines < 0 { break }
RenderBreak ==
    /\ renderPc = "wrap"
    /\ wrapPc = "done"
    /\ currentY - Len(lines) < 0
    /\ renderPc' = "prompt"
    /\ wrapPc' = "idle"
    /\ UNCHANGED <<header, content, w, lines, currentLine, lineWidth,
                   contentIdx, h, renderMessages, msgIdx, currentY, screen>>

\* The rows of a block of lines written from the row after y on.
Block(ls, y, m) == [k \in 1..Len(ls) |-> [row |-> y + k, text |-> ls[k], msg |-> m]]

\* currentY -= numLines; the cursor goes to row currentY+1 and each line is
\* written with Fprintln; if currentY < 0 { break }; i--
RenderPlace ==
    /\ renderPc = "wrap"
    /\ wrapPc = "done"
    /\ currentY - Len(lines) >= 0
    /\ currentY' = currentY - Len(lines)
    /\ screen' = screen \o Block(lines, currentY', msgIdx)
    /\ IF currentY' < 0
       THEN renderPc' = "prompt" /\ msgIdx' = msgIdx
       ELSE renderPc' = "loop" /\ msgIdx' = msgIdx - 1
    /\ wrapPc' = "idle"
    /\ UNCHANGED <<header, content, w, lines, currentLine, lineWidth,
                   contentIdx, h, renderMessages>>

\* The cursor goes to row promptLine; "> " and c.input.Buffer are written,
\* cut to w runes.
RenderPrompt ==
    /\ renderPc = "prompt"
    /\ LET promptRunes == <<62, 32>> \o buffer
           text == IF Len(promptRunes) > w THEN SubSeq(promptRunes, 1, w)
                   ELSE promptRunes
       IN screen' = Append(screen, [row |-> h, text |-> RunesToString(text),
                                    msg |-> 0])
    /\ renderPc' = "done"
    /\ UNCHANGED <<wrapVars, h, renderMessages, msgIdx, currentY>>

(***************************************************************************)
(* Specifications.  A step of the engine is a step of one goroutine; a     *)
(* panic ends the process.  The history variables are written by what a    *)
(* specification conjoins to the step, and each specification records the  *)
(* history its properties read.                                            *)
(***************************************************************************)
histVars ==
    <<inputHist, closeHist, lastSend, debHist, lastWin, frame, owed>>

Step(A) == fault = "none" /\ A /\ UNCHANGED <<wrapVars, renderVars>>

Quiet(A) == Step(A) /\ UNCHANGED histVars

(***************************************************************************)
(* SpecInput: the input watcher under a client that sends well-formed      *)
(* UTF-8, with the event loop up to its return and the cancellation, while *)
(* the debounce timer has not expired.  SpecInputAny: the same under a     *)
(* client that sends any bytes.                                            *)
(***************************************************************************)
WellFormed == {item \in Stream : item.kind # "malformed"}

\* The watcher read item.
Read(A, item) ==
    /\ Step(A)
    /\ lastItem' = item
    /\ prevBuffer' = buffer
    /\ prevMessages' = messages
    /\ UNCHANGED <<closeHist, lastSend, debHist, lastWin, frame, owed>>

InputNextOver(S) ==
    \/ Quiet(InputSelect)
    \/ \E item \in S : Read(InputReadClosed(item), item)
    \/ \E item \in S : Read(InputReadFailed(item), item)
    \/ \E item \in S : Read(InputEnter(item), item)
    \/ \E item \in S : Read(InputCtrlClose(item), item)
    \/ \E item \in S : Read(InputBackspace(item), item)
    \/ \E item \in S : Read(InputControl(item), item)
    \/ \E item \in S : Read(InputPrintable(item), item)
    \/ Quiet(InputSendEnter)
    \/ Quiet(InputRender)
    \/ Quiet(LoopSignal)
    \/ Quiet(LoopRender)
    \/ Quiet(LoopClose)
    \/ Quiet(LoopHandleClose)
    \/ Quiet(CancelAfterGrace)

InputNext == InputNextOver(WellFormed)

SpecInput == Init /\ [][InputNext]_vars

InputAnyNext == InputNextOver(Stream)

SpecInputAny == Init /\ [][InputAnyNext]_vars

(***************************************************************************)
(* SpecClose: the close coordinator.  Every goroutine of the engine runs,  *)
(* with a client that sends control keys only, and sessionHandler calls    *)
(* Close when EventLoop has returned.  The observer counts the calls of    *)
(* emitClose and the signals they put on c.CloseCh.                        *)
(***************************************************************************)
Trig(A) ==
    /\ Step(A)
    /\ triggers' = triggers + 1
    /\ closeSends' =
           IF ch'["CloseCh"] > ch["CloseCh"] THEN closeSends + 1 ELSE closeSends
    /\ UNCHANGED <<inputHist, lastSend, debHist, lastWin, frame, owed>>

CloseNext ==
    \/ Quiet(InputSelect)
    \/ \E item \in Stream : Trig(InputReadClosed(item))
    \/ \E item \in Stream : Quiet(InputReadFailed(item))
    \/ \E item \in Stream : Quiet(InputEnter(item))
    \/ \E item \in Stream : Trig(InputCtrlClose(item))
    \/ \E item \in Stream : Quiet(InputBackspace(item))
    \/ \E item \in Stream : Quiet(InputControl(item))
    \/ Quiet(InputSendEnter)
    \/ Quiet(InputRender)
    \/ Quiet(ResizeCancelled)
    \/ Quiet(ResizeChanClosed)
    \/ Quiet(ResizeEvent)
    \/ Quiet(ResizeSignal)
    \/ Quiet(ResizeRender)
    \/ Quiet(SessionEnds)
    \/ Trig(DoneWatcher)
    \/ Quiet(CancelAfterGrace)
    \/ Quiet(Tick)
    \/ Quiet(TimerFire)
    \/ Quiet(TimerCallback)
    \/ Quiet(LoopSignal)
    \/ Quiet(LoopRender)
    \/ Quiet(LoopClose)
    \/ Trig(LoopHandleClose)
    \/ Trig(CloseEmit)
    \/ Quiet(CloseWait)
    \/ Quiet(CloseChannels)
    \/ Quiet(CloseAgain)

SpecClose == Init /\ [][CloseNext]_vars

(***************************************************************************)
(* Properties of the input watcher.                                        *)
(***************************************************************************)
\* What the properties call the events of the stream.
IsText(item) ==
    /\ item.kind = "rune"
    /\ item.rune = 9 \/ (item.rune >= 32 /\ item.rune # 127)
IsEnter(item) == item.kind = "rune" /\ item.rune \in {13, 10}
IsBackspace(item) == item.kind = "rune" /\ item.rune \in {8, 127}

\* C1: the input buffer never holds more than MaxLen runes, and a printable
\* rune (or a tab) read while it holds MaxLen leaves it as it was, raises no
\* fault and sends the watcher back to its read without a render request.
C1_BufferBounded ==
    /\ Len(buffer) >= 0
    /\ Len(buffer) <= MaxLen
    /\ (IsText(lastItem) /\ Len(prevBuffer) = MaxLen)
         => /\ buffer = prevBuffer
            /\ messages = prevMessages
            /\ fault = "none"
            /\ inputPc \in {"select", "read", "done"}

\* A rune was read with the buffer full and was dropped.
C1_Witness ==
    /\ IsText(lastItem)
    /\ Len(prevBuffer) = MaxLen
    /\ buffer = prevBuffer
    /\ inputPc = "select"

\* C2: from the commit of a line until the next read, if the buffer held
\* runes the log is the log as it was with one message appended, of the
\* session's user and with the buffer's content, and the buffer is empty;
\* if the buffer was empty the log and the buffer are as they were.  No
\* state shows the message appended and the buffer not yet cleared.
C2_CommitAtomic ==
    IsEnter(lastItem)
      => IF prevBuffer # <<>>
         THEN /\ messages =
                   Append(prevMessages,
                          [Username |-> Username, Content |-> prevBuffer])
              /\ buffer = <<>>
         ELSE /\ messages = prevMessages
              /\ buffer = <<>>

\* A line of two runes has just been committed.
C2_Witness ==
    /\ IsEnter(lastItem)
    /\ Len(prevBuffer) = 2
    /\ inputPc = "enter"
    /\ Len(messages) = Len(prevMessages) + 1
    /\ messages[Len(messages)].Content = prevBuffer
    /\ buffer = <<>>

\* C8: the step that reads a backspace or a delete removes the last rune of
\* a buffer that holds one and goes on to request a render; on an empty
\* buffer it changes neither the buffer, the log, a channel nor the timer,
\* raises no fault and goes back to the read.
C8_Backspace ==
    [][(inputPc = "read" /\ inputPc' # "read" /\ IsBackspace(lastItem'))
         => IF buffer # <<>>
            THEN /\ buffer = Append(buffer', buffer[Len(buffer)])
                 /\ messages' = messages
                 /\ inputPc' = "render"
            ELSE /\ UNCHANGED <<buffer, messages, ch, chClosed, timerVars>>
                 /\ fault' = "none"
                 /\ inputPc' = "select"]_vars

\* A backspace has just removed the second rune of the buffer.
C8_Witness ==
    /\ IsBackspace(lastItem)
    /\ Len(prevBuffer) = 2
    /\ buffer = <<prevBuffer[1]>>
    /\ inputPc = "render"

\* C9: whenever the last thing the watcher read was the end of the stream,
\* a read error or bytes that do not decode, the watcher has stopped, close
\* has been triggered, and the buffer is as it was.
C9_StreamEndCloses ==
    lastItem.kind \in {"eof", "error", "malformed"}
      => /\ inputPc = "done"
         /\ onceDone
         /\ buffer = prevBuffer

(***************************************************************************)
(* SpecSignals: the same goroutines, observed at their calls of trySend.   *)
(***************************************************************************)
\* What a trySend(chn) did, whether its caller held c.mu, and whether Close
\* had returned.
Outcome(chn, held) ==
    [chan |-> chn,
     pending |-> ch[chn],
     outcome |-> IF fault' = "send on closed channel" THEN "panic"
                 ELSE IF ch'[chn] > ch[chn] THEN "sent"
                 ELSE "dropped",
     mu |-> held,
     closeReturned |-> (mainPc = "returned")]

\* A step that calls trySend(chn), after c.mu.Unlock() if it has locked c.mu.
Send(A, chn) ==
    /\ Step(A)
    /\ lastSend' = Outcome(chn, FALSE)
    /\ UNCHANGED <<inputHist, closeHist, debHist, lastWin, frame, owed>>

\* A step that calls trySend(chn) between c.mu.Lock() and the deferred
\* c.mu.Unlock().
SendLocked(A, chn) ==
    /\ Step(A)
    /\ lastSend' = Outcome(chn, TRUE)
    /\ UNCHANGED <<inputHist, closeHist, debHist, lastWin, frame, owed>>

\* A step that calls emitClose, which calls trySend(c.CloseCh) when it is
\* the first.  No caller of emitClose holds c.mu.
CloseSend(A) ==
    /\ Step(A)
    /\ lastSend' = IF onceDone THEN lastSend ELSE Outcome("CloseCh", FALSE)
    /\ UNCHANGED <<inputHist, closeHist, debHist, lastWin, frame, owed>>

SignalsNext ==
    \/ Quiet(InputSelect)
    \/ \E item \in Stream : CloseSend(InputReadClosed(item))
    \/ \E item \in Stream : Quiet(InputReadFailed(item))
    \/ \E item \in Stream : Quiet(InputEnter(item))
    \/ \E item \in Stream : CloseSend(InputCtrlClose(item))
    \/ \E item \in Stream : Quiet(InputBackspace(item))
    \/ \E item \in Stream : Quiet(InputControl(item))
    \/ Send(InputSendEnter, "EnterCh")
    \/ Quiet(InputRender)
    \/ Quiet(ResizeCancelled)
    \/ Quiet(ResizeChanClosed)
    \/ Quiet(ResizeEvent)
    \/ Send(ResizeSignal, "WinSizeChangedCh")
    \/ Quiet(ResizeRender)
    \/ Quiet(SessionEnds)
    \/ CloseSend(DoneWatcher)
    \/ Quiet(CancelAfterGrace)
    \/ Quiet(Tick)
    \/ Quiet(TimerFire)
    \/ SendLocked(TimerCallback, "RenderCh")
    \/ Quiet(LoopSignal)
    \/ Quiet(LoopRender)
    \/ Quiet(LoopClose)
    \/ CloseSend(LoopHandleClose)
    \/ CloseSend(CloseEmit)
    \/ Quiet(CloseWait)
    \/ Quiet(CloseChannels)
    \/ Quiet(CloseAgain)

SpecSignals == Init /\ [][SignalsNext]_vars

(***************************************************************************)
(* SpecDebounce: the same goroutines, observed at their calls of           *)
(* TrySendRender and at the callback of the timer.  A request made while   *)
(* the timer is pending belongs to the burst of the request before it; a   *)
(* request made when no timer is pending begins a burst.                   *)
(***************************************************************************)
Min(a, b) == IF a < b THEN a ELSE b

\* A step that calls TrySendRender.
Req(A) ==
    /\ Step(A)
    /\ burstsOpen' = IF timerArmed THEN burstsOpen
                     ELSE Min(burstsOpen + 1, MaxCb + 1)
    /\ UNCHANGED <<inputHist, closeHist, lastSend, burstEarly, lastWin, frame,
                   owed>>

\* The callback of the timer: its trySend(c.RenderCh) is the render signal.
\* The timer is pending with time left when a request has been made less
\* than the debounce interval ago.
Emit(A) ==
    /\ Step(A)
    /\ IF chClosed["RenderCh"] = 0
       THEN /\ burstsOpen' = IF burstsOpen > 0 THEN burstsOpen - 1 ELSE 0
            /\ burstEarly' = (burstEarly \/ (timerArmed /\ timerLeft > 0))
       ELSE UNCHANGED <<burstsOpen, burstEarly>>
    /\ UNCHANGED <<inputHist, closeHist, lastSend, lastWin, frame, owed>>

DebounceNext ==
    \/ Quiet(InputSelect)
    \/ \E item \in Stream : Quiet(InputReadClosed(item))
    \/ \E item \in Stream : Quiet(InputReadFailed(item))
    \/ \E item \in Stream : Quiet(InputEnter(item))
    \/ \E item \in Stream : Quiet(InputCtrlClose(item))
    \/ \E item \in Stream : Quiet(InputBackspace(item))
    \/ \E item \in Stream : Quiet(InputControl(item))
    \/ Quiet(InputSendEnter)
    \/ Req(InputRender)
    \/ Quiet(ResizeCancelled)
    \/ Quiet(ResizeChanClosed)
    \/ Quiet(ResizeEvent)
    \/ Quiet(ResizeSignal)
    \/ Req(ResizeRender)
    \/ Quiet(SessionEnds)
    \/ Quiet(DoneWatcher)
    \/ Quiet(CancelAfterGrace)
    \/ Quiet(Tick)
    \/ Quiet(TimerFire)
    \/ Emit(TimerCallback)
    \/ Quiet(LoopSignal)
    \/ Quiet(LoopRender)
    \/ Quiet(LoopClose)
    \/ Quiet(LoopHandleClose)
    \/ Quiet(CloseEmit)
    \/ Quiet(CloseWait)
    \/ Quiet(CloseChannels)
    \/ Quiet(CloseAgain)

SpecDebounce == Init /\ [][DebounceNext]_vars

(***************************************************************************)
(* SpecWrap: one call of calculateMessageLines on any header, content and  *)
(* width within the bounds, while nothing else runs.                       *)
(***************************************************************************)
InitWrap ==
    /\ InitEngine
    /\ InitHist
    /\ InitNoRender
    /\ header \in SeqsUpTo(WrapRunes, MaxHeader)
    /\ content \in SeqsUpTo(WrapRunes, MaxContent)
    /\ w \in 0..MaxWidth
    /\ lines = <<>>
    /\ currentLine = <<>>
    /\ lineWidth = 0
    /\ contentIdx = 0
    /\ wrapPc = "start"

WrapStep(A) == A /\ UNCHANGED <<engineVars, histVars, renderVars>>

WrapNext ==
    \/ WrapStep(WrapStart)
    \/ WrapStep(WrapFits)
    \/ WrapStep(WrapSplit)
    \/ WrapStep(WrapFlush)
    \/ WrapStep(WrapReturn)

SpecWrap == InitWrap /\ [][WrapNext]_vars

(***************************************************************************)
(* SpecRender: one call of handleRender on any log, buffer, width and      *)
(* height within the bounds, while nothing else runs.  The call goes on    *)
(* as long as it has a step to take.                                       *)
(***************************************************************************)
Contents == SeqsUpTo({97}, MaxContent) \ {<<>>}

Logs == SeqsUpTo({NewMessage(c) : c \in Contents}, MaxLog)

InitRender ==
    /\ width \in 0..MaxCols
    /\ height \in 0..MaxRows
    /\ buffer \in {<<97, 97>>}
    /\ messages \in Logs
    /\ lastWin = [Width |-> width, Height |-> height]
    /\ InitControl
    /\ InitHist
    /\ InitNoWrap
    /\ renderPc = "start"
    /\ h = 0
    /\ renderMessages = <<>>
    /\ msgIdx = 0
    /\ currentY = 0
    /\ screen = <<>>

RenderStep(A) == A /\ UNCHANGED <<engineVars, histVars>>

RenderNext ==
    \/ RenderStep(RenderStart)
    \/ RenderStep(RenderMessage)
    \/ WrapStep(WrapStart)
    \/ WrapStep(WrapFits)
    \/ WrapStep(WrapSplit)
    \/ WrapStep(WrapFlush)
    \/ WrapStep(WrapReturn)
    \/ RenderStep(RenderPlace)
    \/ RenderStep(RenderBreak)
    \/ RenderStep(RenderLoopEnd)
    \/ RenderStep(RenderPrompt)

SpecRender == InitRender /\ [][RenderNext]_vars /\ WF_vars(RenderNext)

(***************************************************************************)
(* SpecLive: the same goroutines under the scheduling the runtime gives    *)
(* them.  A goroutine that can take a step takes one (WF); a select takes  *)
(* each case that is ready again and again (SF), since it picks among the  *)
(* ready cases at random; the session ends when the client has gone.       *)
(***************************************************************************)
\* A step that calls TrySendRender: a render is owed for the change of
\* state that made the watcher call it.
Owe(A) ==
    /\ Step(A)
    /\ owed' = IF owed = "a" THEN "b" ELSE "a"
    /\ UNCHANGED <<inputHist, closeHist, lastSend, debHist, lastWin, frame>>

\* A step of EventLoop's select: with case <-c.RenderCh it goes on to
\* c.HandleRender(), which draws the state as it is from then on.
Pay(A) ==
    /\ Step(A)
    /\ owed' = IF ch'["RenderCh"] < ch["RenderCh"] THEN "no" ELSE owed
    /\ UNCHANGED <<inputHist, closeHist, lastSend, debHist, lastWin, frame>>

InputSteps ==
    \/ Quiet(InputSelect)
    \/ \E item \in Stream : Quiet(InputReadClosed(item))
    \/ \E item \in Stream : Quiet(InputReadFailed(item))
    \/ \E item \in Stream : Quiet(InputEnter(item))
    \/ \E item \in Stream : Quiet(InputCtrlClose(item))
    \/ \E item \in Stream : Quiet(InputBackspace(item))
    \/ \E item \in Stream : Quiet(InputControl(item))
    \/ Quiet(InputSendEnter)
    \/ Owe(InputRender)

ResizeSteps ==
    \/ Quiet(ResizeEvent)
    \/ Quiet(ResizeSignal)
    \/ Owe(ResizeRender)

ResizeStops ==
    \/ Quiet(ResizeCancelled)
    \/ Quiet(ResizeChanClosed)

TimerSteps ==
    \/ Quiet(Tick)
    \/ Quiet(TimerFire)
    \/ Quiet(TimerCallback)

LoopSteps ==
    \/ Pay(LoopSignal)
    \/ Quiet(LoopRender)

LoopCloses ==
    \/ Quiet(LoopClose)
    \/ Quiet(LoopHandleClose)

CloseSteps ==
    \/ Quiet(CloseEmit)
    \/ Quiet(CloseWait)
    \/ Quiet(CloseChannels)

LiveNext ==
    \/ InputSteps
    \/ ResizeSteps
    \/ ResizeStops
    \/ Quiet(SessionEnds)
    \/ Quiet(DoneWatcher)
    \/ Quiet(CancelAfterGrace)
    \/ TimerSteps
    \/ LoopSteps
    \/ LoopCloses
    \/ CloseSteps
    \/ Quiet(CloseAgain)

Fairness ==
    /\ WF_vars(InputSteps)
    /\ WF_vars(ResizeSteps)
    /\ SF_vars(ResizeStops)
    /\ WF_vars(Quiet(SessionEnds))
    /\ WF_vars(Quiet(DoneWatcher))
    /\ WF_vars(Quiet(CancelAfterGrace))
    /\ WF_vars(TimerSteps)
    /\ WF_vars(LoopSteps)
    /\ SF_vars(LoopCloses)
    /\ WF_vars(CloseSteps)

SpecLive == Init /\ [][LiveNext]_vars /\ Fairness

(***************************************************************************)
(* C3.  Whatever calls of emitClose are made, and from whichever of the    *)
(* input watcher, the session close watcher, handleClose and Close, the    *)
(* session is closed exactly once and exactly one signal is put on         *)
(* c.CloseCh; a call after the first changes nothing of the engine but the *)
(* position of its caller.                                                 *)
(***************************************************************************)
C3_CloseOnce ==
    /\ [](/\ triggers = 0 => transportCloses = 0 /\ closeSends = 0
          /\ triggers >= 1 => transportCloses = 1 /\ closeSends = 1)
    /\ [][(triggers >= 1 /\ triggers' > triggers) =>
             UNCHANGED <<clientVars, chanVars, timerVars, closeVars, sessDone,
                         fault>>]_vars

\* Four calls have been made, by three goroutines.
C3_Witness ==
    /\ triggers >= 4
    /\ inputPc = "done"
    /\ donePc = "done"
    /\ closeCalls = 2
    /\ transportCloses = 1
    /\ closeSends = 1

(***************************************************************************)
(* C4.  When Close has returned, each of c.RenderCh, c.EnterCh,            *)
(* c.WinSizeChangedCh and c.CloseCh has been closed exactly once.          *)
(***************************************************************************)
C4_ChannelsClosedOnce ==
    mainPc = "returned" => \A c \in ChanNames : chClosed[c] = 1

(***************************************************************************)
(* C5.  Render requests each made less than the debounce interval after    *)
(* the one before it produce exactly one render signal, and it is emitted  *)
(* when the interval has passed since the last of them: no render signal   *)
(* is emitted while a request is less than DebounceDur old, and when no    *)
(* timer is left and no callback is outstanding every burst has had its    *)
(* signal.                                                                 *)
(***************************************************************************)
C5_OneSignalPerBurst ==
    /\ ~burstEarly
    /\ (timer = "nil" /\ cbPending = 0) => burstsOpen = 0

(***************************************************************************)
(* C6.  When the header and the content together are longer than the width *)
(* w >= 1, every line calculateMessageLines returns has at most w runes.   *)
(***************************************************************************)
C6_LinesFitWidth ==
    (wrapPc = "done" /\ w >= 1 /\ Len(header) + Len(content) > w) =>
        \A i \in 1..Len(lines) : Len(lines[i]) <= w

(***************************************************************************)
(* C7.  For a width w >= 1, the lines calculateMessageLines returns, put   *)
(* one after the other, are the header followed by the content.            *)
(***************************************************************************)
RECURSIVE Concat(_)
Concat(ls) == IF ls = <<>> THEN <<>> ELSE Head(ls) \o Concat(Tail(ls))

C7_LinesConcatenate ==
    (wrapPc = "done" /\ w >= 1) => Concat(lines) = header \o content

\* A header and a content that took three lines or more.
C7_Witness ==
    /\ wrapPc = "done"
    /\ w >= 1
    /\ header # <<>>
    /\ Len(content) >= 2
    /\ Len(lines) >= 3
    /\ Concat(lines) = header \o content

(***************************************************************************)
(* C10.  No channel ever holds more than one signal; a trySend on a        *)
(* channel that holds one leaves the channel as it is, and one on a        *)
(* channel that holds none puts one in; and every goroutine that is at a   *)
(* trySend, the callback of the timer included, can take its step.         *)
(***************************************************************************)
C10_SignalsCoalesce ==
    /\ \A c \in ChanNames : ch[c] <= ChanCap
    /\ lastSend.chan # "none" =>
          /\ lastSend.pending >= ChanCap => lastSend.outcome = "dropped"
          /\ lastSend.pending < ChanCap => lastSend.outcome = "sent"
    /\ inputPc = "enter" => ENABLED InputSendEnter
    /\ resizePc = "signal" => ENABLED ResizeSignal
    /\ cbPending > 0 => ENABLED TimerCallback
    /\ inputPc = "read" =>
          \A item \in Stream :
              (item.kind = "eof" \/ (item.kind = "rune" /\ item.rune \in {3, 4}))
                  => ENABLED (InputReadClosed(item) \/ InputCtrlClose(item))
    /\ (donePc = "wait" /\ sessDone) => ENABLED DoneWatcher
    /\ mainPc = "handleClose" => ENABLED LoopHandleClose
    /\ mainPc = "Close" => ENABLED CloseEmit

\* The callback of the timer found a signal in c.RenderCh and dropped its own.
C10_Witness ==
    /\ lastSend.chan = "RenderCh"
    /\ lastSend.pending = 1
    /\ lastSend.outcome = "dropped"
    /\ ch["RenderCh"] = 1
    /\ fault = "none"

(***************************************************************************)
(* C11.  EventLoop returns only by taking the signal of c.CloseCh: when it *)
(* has left its select for good, emitClose has been called and has put its *)
(* signal on c.CloseCh.  A signal taken from c.RenderCh, c.EnterCh or      *)
(* c.WinSizeChangedCh is one signal of one channel, it starts one          *)
(* HandleRender, and HandleRender returns to the select.                   *)
(***************************************************************************)
LoopRunning == mainPc \in {"loop", "render"}

SignalsHeld ==
    ch["RenderCh"] + ch["EnterCh"] + ch["WinSizeChangedCh"]

C11_LoopExitsOnClose ==
    /\ [](~LoopRunning => triggers >= 1 /\ closeSends = 1 /\ ch["CloseCh"] = 0)
    /\ [][(mainPc = "loop" /\ mainPc' # "loop") =>
             \/ /\ mainPc' = "render"
                /\ SignalsHeld' = SignalsHeld - 1
                /\ ch'["CloseCh"] = ch["CloseCh"]
             \/ /\ mainPc' = "handleClose"
                /\ ch["CloseCh"] = 1
                /\ ch'["CloseCh"] = 0
                /\ SignalsHeld' = SignalsHeld]_vars
    /\ [][(mainPc = "render" /\ mainPc' # "render") =>
             mainPc' = "loop" /\ ch' = ch]_vars

\* The loop has returned while signals it has not taken are left.
C11_Witness ==
    /\ mainPc = "Close"
    /\ triggers >= 1
    /\ closeSends = 1
    /\ ch["CloseCh"] = 0
    /\ SignalsHeld >= 2

(***************************************************************************)
(* C12.  A call of handleRender with width 0 or height 0 and a log that    *)
(* is not empty returns: the loop of calculateMessageLines, whose next     *)
(* iteration is determined by contentIdx, currentLine and lineWidth, does  *)
(* not complete an iteration with all three as they were.                  *)
(***************************************************************************)
C12_DegenerateRenderReturns ==
    [][(/\ renderPc = "wrap"
        /\ w = 0 \/ h = 0
        /\ wrapPc = "loop"
        /\ wrapPc' = "loop")
          => <<contentIdx, currentLine, lineWidth>>'
                 # <<contentIdx, currentLine, lineWidth>>]_vars

C14_SendsOutsideGuard == lastSend.chan # "none" => ~lastSend.mu

(***************************************************************************)
(* C15.  Once emitClose has been called while EventLoop is running,        *)
(* EventLoop takes the signal of c.CloseCh and returns, whatever signals   *)
(* the other channels hold or are still given.                             *)
(***************************************************************************)
C15_CloseEndsLoop == (onceDone /\ LoopRunning) ~> ~LoopRunning

(***************************************************************************)
(* C16.  A call of Close returns, and it gets past c.wg.Wait() only when   *)
(* the input watcher, the resize watcher and the done watcher have all     *)
(* returned.                                                               *)
(***************************************************************************)
C16_CloseReturns ==
    /\ [](mainPc \in {"once", "returned"} => wg = 0)
    /\ (mainPc \in {"Close", "wait", "once"}) ~> (mainPc = "returned")

\* case 0x03 (Ctrl+C), case 0x04 (Ctrl+D)
IsCtrlClose(item) == item.kind = "rune" /\ item.rune \in {3, 4}

(***************************************************************************)
(* C17.  When the watcher has read 0x03 or 0x04 it has called emitClose    *)
(* and returned, with the buffer and the log as they were before the read; *)
(* a watcher that has returned reads nothing more and changes neither the  *)
(* buffer nor the log.                                                     *)
(***************************************************************************)
C17_CtrlCloseStops ==
    /\ [](IsCtrlClose(lastItem)
            => /\ inputPc = "done"
               /\ onceDone
               /\ buffer = prevBuffer
               /\ messages = prevMessages)
    /\ [][inputPc = "done"
            => inputPc' = "done" /\ UNCHANGED <<buffer, messages, lastItem>>]_vars

\* Ctrl+C or Ctrl+D was read with a typed line pending and a line in the log.
C17_Witness ==
    /\ IsCtrlClose(lastItem)
    /\ inputPc = "done"
    /\ onceDone
    /\ buffer # <<>>
    /\ messages # <<>>

(***************************************************************************)
(* C18.  After an Enter read on an empty buffer the watcher puts no signal *)
(* on c.EnterCh and requests no render: its steps up to the next read      *)
(* leave the channels and the debounce timer as they were.                 *)
(***************************************************************************)
C18_EmptyEnterSilent ==
    [][(/\ IsEnter(lastItem)
        /\ prevBuffer = <<>>
        /\ inputPc \in {"enter", "render"}
        /\ inputPc' # inputPc)
         => ch' = ch /\ UNCHANGED timerVars]_vars

(***************************************************************************)
(* C19.  For a header shorter than the width w, every line that            *)
(* calculateMessageLines returns, except the last, has exactly w runes,    *)
(* and when there is more than one line the first is the header followed   *)
(* by the first w - len(header) runes of the content.                      *)
(***************************************************************************)
C19_LinesFilled ==
    (wrapPc = "done" /\ Len(header) < w) =>
        /\ \A i \in 1..(Len(lines) - 1) : Len(lines[i]) = w
        /\ Len(lines) >= 2
             => lines[1] = header \o SubSeq(content, 1, w - Len(header))

(***************************************************************************)
(* What a render has put on the screen.                                    *)
(***************************************************************************)
\* The places of screen that hold a line of a message.
MessagePlaces == {k \in 1..Len(screen) : screen[k].msg # 0}

\* The messages of the log that have a line on the screen.
Drawn == {screen[k].msg : k \in MessagePlaces}

EntryOf(m, e) == e.msg = m

\* The lines written for message m, in the order they were written, put one
\* after the other.
TextOf(m) ==
    LET block == SelectSeq(screen, LAMBDA e : EntryOf(m, e))
    IN Concat([k \in 1..Len(block) |-> block[k].text])

(***************************************************************************)
(* C20.  When a render on a screen of h >= 1 rows has returned: the        *)
(* messages drawn are the newest ones of the log, without a gap; the lines *)
(* of a drawn message are all there (together they are its header and its  *)
(* content); the lines fill consecutive rows that end with row h - 1, in   *)
(* the order of the log and, within a message, in the order of its lines;  *)
(* no line of a message is outside rows 1..h-1, and row h holds the prompt *)
(* only; the newest message that is not drawn is one whose block had no    *)
(* room above the blocks drawn, and no older message is drawn.             *)
(***************************************************************************)
C20_RenderLayout ==
    (renderPc = "done" /\ h >= 1) =>
        LET n == Len(renderMessages)
            count == Cardinality(MessagePlaces)
        IN /\ Drawn = (msgIdx + 1)..n
           /\ \A m \in Drawn :
                  TextOf(m) = HeaderOf(renderMessages[m])
                                \o StringToRunes(renderMessages[m].Content)
           /\ {screen[k].row : k \in MessagePlaces} = (h - count)..(h - 1)
           /\ \A j, k \in MessagePlaces :
                  \/ screen[j].msg < screen[k].msg
                  \/ (screen[j].msg = screen[k].msg /\ j < k)
                  => screen[j].row < screen[k].row
           /\ \A k \in MessagePlaces : screen[k].row \in 1..(h - 1)
           /\ MessagePlaces = 1..(Len(screen) - 1)
           /\ screen[Len(screen)].msg = 0
           /\ screen[Len(screen)].row = h
           /\ msgIdx >= 1 =>
                  /\ header = HeaderOf(renderMessages[msgIdx])
                  /\ content = StringToRunes(renderMessages[msgIdx].Content)
                  /\ Concat(lines) = header \o content
                  /\ Len(lines) > h - 1 - count

\* Of three messages the two newest were drawn, one of them on two rows,
\* and the oldest had no room.
C20_Witness ==
    /\ renderPc = "done"
    /\ Len(renderMessages) = 3
    /\ Drawn = {2, 3}
    /\ msgIdx = 1
    /\ Cardinality(MessagePlaces) = 3

(***************************************************************************)
(* SpecResize: the same goroutines, observed at the windows the pty        *)
(* reports: ptyReq.Window when sessionHandler calls NewClient, and each    *)
(* win the window size watcher receives from winCh.                        *)
(***************************************************************************)
\* A step in which the watcher receives the window win.
Report(A, win) ==
    /\ Step(A)
    /\ lastWin' = win
    /\ UNCHANGED <<inputHist, closeHist, lastSend, debHist, frame, owed>>

ResizeNext ==
    \/ Quiet(InputSelect)
    \/ \E item \in Stream : Quiet(InputReadClosed(item))
    \/ \E item \in Stream : Quiet(InputReadFailed(item))
    \/ \E item \in Stream : Quiet(InputEnter(item))
    \/ \E item \in Stream : Quiet(InputCtrlClose(item))
    \/ \E item \in Stream : Quiet(InputBackspace(item))
    \/ \E item \in Stream : Quiet(InputControl(item))
    \/ Quiet(InputSendEnter)
    \/ Quiet(InputRender)
    \/ Quiet(ResizeCancelled)
    \/ Quiet(ResizeChanClosed)
    \/ \E win \in Windows : Report(ResizeEventOf(win), win)
    \/ Quiet(ResizeSignal)
    \/ Quiet(ResizeRender)
    \/ Quiet(SessionEnds)
    \/ Quiet(DoneWatcher)
    \/ Quiet(CancelAfterGrace)
    \/ Quiet(Tick)
    \/ Quiet(TimerFire)
    \/ Quiet(TimerCallback)
    \/ Quiet(LoopSignal)
    \/ Quiet(LoopRender)
    \/ Quiet(LoopClose)
    \/ Quiet(LoopHandleClose)
    \/ Quiet(CloseEmit)
    \/ Quiet(CloseWait)
    \/ Quiet(CloseChannels)
    \/ Quiet(CloseAgain)

SpecResize == Init /\ [][ResizeNext]_vars

(***************************************************************************)
(* C21.  In every state c.width and c.height are the width and the height  *)
(* of the window the pty reported last: the window of the pty request when *)
(* sessionHandler has built the client, and afterwards the last window the *)
(* window size watcher received.                                           *)
(***************************************************************************)
C21_SizeIsReported == width = lastWin.Width /\ height = lastWin.Height

(***************************************************************************)
(* C24.  Whenever the function given to time.AfterFunc runs,               *)
(* c.renderDebounceTimer is not nil: no callback finds the field cleared   *)
(* by a callback before it, whatever the order of the calls of             *)
(* TrySendRender and the callbacks.                                        *)
(***************************************************************************)
C24_CallbackTimerSet ==
    [][cbPending' < cbPending => timer # "nil" /\ fault' # "nil timer"]_vars

(***************************************************************************)
(* SpecFrame: EventLoop's calls of handleRender, step by step, while the   *)
(* input watcher goes on reading.  The watcher changes c.messages and      *)
(* c.input.Buffer between c.mu.Lock() and c.mu.Unlock(); handleRender      *)
(* reads c.messages and, later, c.input.Buffer without taking c.mu.  The   *)
(* observer keeps the pairs the guard has protected since the call began.  *)
(***************************************************************************)
\* Windows for which a block has room and windows for which it has none.
Screens == {[Width |-> 1, Height |-> 6], [Width |-> 6, Height |-> 1]}

InitFrame ==
    /\ \E win \in Screens :
         /\ lastWin = win
         /\ width = win.Height
         /\ height = win.Width
    /\ buffer = <<>>
    /\ messages = <<>>
    /\ InitControl
    /\ InitHist
    /\ InitNoWrap
    /\ InitNoRender

\* case <-c.RenderCh etc.: c.HandleRender() is called.
RenderCall ==
    /\ mainPc = "render"
    /\ renderPc = "idle"
    /\ fault = "none"
    /\ renderPc' = "start"
    /\ UNCHANGED <<engineVars, wrapVars, h, renderMessages, msgIdx, currentY,
                   screen, histVars>>

\* handleRender returns, its locals are gone, and EventLoop goes back to its
\* select.
RenderReturn ==
    /\ renderPc = "done"
    /\ fault = "none"
    /\ LoopRender
    /\ header' = <<>>
    /\ content' = <<>>
    /\ w' = 0
    /\ lines' = <<>>
    /\ currentLine' = <<>>
    /\ lineWidth' = 0
    /\ contentIdx' = 0
    /\ wrapPc' = "idle"
    /\ renderPc' = "idle"
    /\ h' = 0
    /\ renderMessages' = <<>>
    /\ msgIdx' = 0
    /\ currentY' = 0
    /\ screen' = <<>>
    /\ frame' = [states |-> {}, buffer |-> <<>>]
    /\ UNCHANGED <<inputHist, closeHist, lastSend, debHist, lastWin, owed>>

\* A step of the watcher between c.mu.Lock() and c.mu.Unlock().
Guarded(A) ==
    /\ Step(A)
    /\ frame' = IF renderPc \in {"idle", "start", "done"} THEN frame
                ELSE [frame EXCEPT !.states = @ \cup {<<messages', buffer'>>}]
    /\ UNCHANGED <<inputHist, closeHist, lastSend, debHist, lastWin, owed>>

\* messages := c.messages, in the state the guard protects at that moment.
Begin(A) ==
    /\ A
    /\ frame' = [states |-> {<<messages, buffer>>}, buffer |-> <<>>]
    /\ UNCHANGED <<engineVars, inputHist, closeHist, lastSend, debHist,
                   lastWin, owed>>

\* append([]rune("> "), c.input.Buffer...)
Draw(A) ==
    /\ A
    /\ frame' = [frame EXCEPT !.buffer = buffer]
    /\ UNCHANGED <<engineVars, inputHist, closeHist, lastSend, debHist,
                   lastWin, owed>>

\* What the client sends here: the keys, with one letter for the text.
Keys == {item \in WellFormed : IsText(item) => item.rune = 97}

FrameNext ==
    \/ Quiet(InputSelect)
    \/ \E item \in Keys : Quiet(InputReadClosed(item))
    \/ \E item \in Keys : Quiet(InputReadFailed(item))
    \/ \E item \in Keys : Guarded(InputEnter(item))
    \/ \E item \in Keys : Quiet(InputCtrlClose(item))
    \/ \E item \in Keys : Guarded(InputBackspace(item))
    \/ \E item \in Keys : Quiet(InputControl(item))
    \/ \E item \in Keys : Guarded(InputPrintable(item))
    \/ Quiet(InputSendEnter)
    \/ Quiet(InputRender)
    \/ Quiet(LoopSignal)
    \/ RenderCall
    \/ Begin(RenderStart)
    \/ RenderStep(RenderMessage)
    \/ WrapStep(WrapStart)
    \/ WrapStep(WrapFits)
    \/ WrapStep(WrapSplit)
    \/ WrapStep(WrapFlush)
    \/ WrapStep(WrapReturn)
    \/ RenderStep(RenderPlace)
    \/ RenderStep(RenderBreak)
    \/ RenderStep(RenderLoopEnd)
    \/ Draw(RenderPrompt)
    \/ RenderReturn
    \/ Quiet(LoopClose)
    \/ Quiet(LoopHandleClose)
    \/ Quiet(CancelAfterGrace)

SpecFrame == InitFrame /\ [][FrameNext]_vars

(***************************************************************************)
(* C23.  What a call of handleRender has drawn, the log it took and the    *)
(* buffer it put after the prompt, is a pair <<c.messages,                 *)
(* c.input.Buffer>> that the guard protected at some moment of the call:   *)
(* a line committed during the call is in the log drawn or in the prompt   *)
(* drawn.                                                                  *)
(***************************************************************************)
C23_FrameIsSnapshot ==
    renderPc = "done" => <<renderMessages, frame.buffer>> \in frame.states

(***************************************************************************)
(* C22.  While close has not been triggered, a call of TrySendRender that  *)
(* no other call follows is followed by a render: the timer expires, its   *)
(* callback puts a signal on c.RenderCh (or finds one there), and          *)
(* EventLoop takes a signal of c.RenderCh after the call and renders.      *)
(***************************************************************************)
C22_FinalDraw ==
    \A x \in {"a", "b"} : (owed = x) ~> (owed # x \/ onceDone)

====
